---- MODULE Spec2Model ----
(***************************************************************************)
(* A state-machine model of the notebook twocolors.ipynb.                  *)
(*                                                                         *)
(* The notebook's four code cells run top to bottom over one global        *)
(* namespace: cell 1 decodes and normalises the test image and projects it *)
(* on the yellow-blue axis, cell 2 builds the red-green images, cell 3     *)
(* defines the period T and the mixing function h, and cell 4 blends       *)
(* im_yb and im_rg_yb frame by frame into an animation writer.             *)
(*                                                                         *)
(* Numbers.  A float is a fixed-point integer, Unit standing for 1.0; a    *)
(* float product is FMul (one rounding per operation, as in the code).     *)
(* Every pixel value the notebook produces (a byte over 256, times 0.25,   *)
(* 0.5, 0.75 or 1) is exact in both representations.  Times (T, the step   *)
(* 1.0/fps and the samples of numpy.arange) are exact rationals <<n, d>>   *)
(* with d > 0: for the periods and rates used here IEEE double arithmetic  *)
(* gives the same sample count as exact arithmetic, samples that are the   *)
(* doubles nearest k/fps, and h = 0.0 at t = 0 and h = 1.0 at t = T/2.     *)
(* math.sin is a table of sin(pi*j/300) rounded to the fixed-point grid,   *)
(* so the rates offered for a period are those whose sample phases t/T     *)
(* fall on three-hundredths of a half turn (this includes the notebook's   *)
(* own T = 1.0, fps = 30, and the plot's step 0.02 for every period used). *)
(***************************************************************************)
EXTENDS Integers, Sequences, FiniteSets, TLC

VARIABLES
    pc,           \* the next cell or statement to execute
    im,           \* cell 1: the decoded, normalised test image
    m_yb,         \* cell 1: yellow-blue projection matrix
    im_yb,        \* cell 1: im projected on the yellow-blue axis
    m_rg,         \* cell 2: red-green extraction matrix
    m_rg_yb,      \* cell 2: red-green to yellow-blue rotation matrix
    im_rg,        \* cell 2
    im_rg_yb,     \* cell 2
    T,            \* cell 3: the period, a rational <<n, d>>
    h_values,     \* cell 3: h sampled over three periods for the plot
    fps,          \* cell 4: the frame rate (the literal 30 of the notebook)
    f,            \* cell 4: the animation writer, "unopened", "open" or "closed"
    arange,       \* cell 4: the array numpy.arange(0, T, 1.0/fps)
    i,            \* cell 4: how many elements of arange the for loop has consumed
    t,            \* cell 4: the loop variable
    frame_rotate, \* cell 4: the frame computed last
    frames,       \* the frames appended to the writer, in order
    times,        \* history: the sample time each appended frame was computed at
    err           \* the exception that ended the run, or "None"

vars == <<pc, im, m_yb, im_yb, m_rg, m_rg_yb, im_rg, im_rg_yb, T, h_values,
          fps, f, arange, i, t, frame_rotate, frames, times, err>>

(***************************************************************************)
(* Bounds of the model.                                                    *)
(***************************************************************************)
MaxH == 2
MaxW == 1
MaxBlendH == 3

(***************************************************************************)
(* Floats as fixed point.                                                  *)
(***************************************************************************)
Unit == 16 * 256

FMul(x, y) == (x * y) \div Unit

Max(a, b) == IF a >= b THEN a ELSE b

Abs(x) == IF x >= 0 THEN x ELSE -x

(***************************************************************************)
(* Exact rationals <<n, d>>, d > 0, for times.                             *)
(***************************************************************************)
RLess(a, b) == a[1] * b[2] < b[1] * a[2]

REq(a, b) == a[1] * b[2] = b[1] * a[2]

\* ceil(n/d) for d > 0
CeilDiv(n, d) == -((-n) \div d)

(***************************************************************************)
(* Images: rows of pixels of channels, shape (height, width, channels).    *)
(***************************************************************************)
Shape(img) == <<Len(img), Len(img[1]), Len(img[1][1])>>

ImagesOver(pixels, maxh, maxw) ==
    UNION {[1..hh -> [1..ww -> pixels]] : hh \in 1..maxh, ww \in 1..maxw}

\* 8-bit RGB pixels the decoder may return
RawPixels == {<<255, 0, 0>>, <<0, 128, 255>>, <<255, 255, 64>>}

RawImages == ImagesOver(RawPixels, MaxH, MaxW)

\* im.astype(float) / 256.0
Normalize(raw) ==
    [r \in 1..Len(raw) |->
        [c \in 1..Len(raw[r]) |->
            [ch \in 1..Len(raw[r][c]) |-> (raw[r][c][ch] * Unit) \div 256]]]

(***************************************************************************)
(* The three colour matrices (rows as written in the notebook).            *)
(***************************************************************************)
\* M_YB averaging green and blue instead of red and green
M_YB_GreenBlue == << <<Unit, 0, 0>>,
                     <<0, Unit \div 2, Unit \div 2>>,
                     <<0, Unit \div 2, Unit \div 2>> >>

\* red and green summed, not averaged
M_YB_Sum == << <<Unit, Unit, 0>>,
               <<Unit, Unit, 0>>,
               <<0, 0, Unit>> >>

M_YB == << <<Unit \div 2, Unit \div 2, 0>>,
           <<Unit \div 2, Unit \div 2, 0>>,
           <<0, 0, Unit>> >>

\* M_RG transposed
M_RG_Transposed == << <<Unit, 0, 0>>,
                      <<0, Unit, 0>>,
                      <<Unit \div 2, Unit \div 2, 0>> >>

M_RG == << <<Unit, 0, Unit \div 2>>,
           <<0, Unit, Unit \div 2>>,
           <<0, 0, 0>> >>

\* M_RG_YB transposed
M_RG_YB_Transposed == << <<(3 * Unit) \div 4, Unit \div 4, 0>>,
                         <<(3 * Unit) \div 4, Unit \div 4, 0>>,
                         <<0, Unit, 0>> >>

M_RG_YB == << <<(3 * Unit) \div 4, (3 * Unit) \div 4, 0>>,
              <<Unit \div 4, Unit \div 4, Unit>>,
              <<0, 0, 0>> >>

\* VecMat taking the pixel as a column vector: out[j] = sum over c of m[j][c] * p[c]
VecMatColumn(p, m) ==
    [j \in 1..Len(m) |->
        FMul(m[j][1], p[1]) + FMul(m[j][2], p[2]) + FMul(m[j][3], p[3])]

\* one pixel (a row vector) times a matrix: out[j] = sum over c of p[c] * m[c][j]
VecMat(p, m) ==
    [j \in 1..Len(m[1]) |->
        FMul(p[1], m[1][j]) + FMul(p[2], m[2][j]) + FMul(p[3], m[3][j])]

\* numpy.matmul(img, m) for an (H, W, 3) array and a (3, 3) matrix
matmul(img, m) ==
    [r \in 1..Len(img) |-> [c \in 1..Len(img[r]) |-> VecMat(img[r][c], m)]]

(***************************************************************************)
(* The mixing function.                                                    *)
(***************************************************************************)
\* sin(pi*j/300), j = 0..150, on the fixed-point grid
SinTable == <<0, 43, 86, 129, 172, 214, 257, 300, 343, 385, 428, 471, 513,
              556, 598, 641, 683, 725, 768, 810, 852, 894, 935, 977, 1019,
              1060, 1101, 1143, 1184, 1225, 1266, 1306, 1347, 1387, 1428,
              1468, 1508, 1548, 1587, 1627, 1666, 1705, 1744, 1783, 1821,
              1860, 1898, 1936, 1973, 2011, 2048, 2085, 2122, 2158, 2195,
              2231, 2267, 2302, 2338, 2373, 2408, 2442, 2476, 2510, 2544,
              2578, 2611, 2644, 2676, 2709, 2741, 2772, 2804, 2835, 2866,
              2896, 2926, 2956, 2986, 3015, 3044, 3072, 3101, 3129, 3156,
              3183, 3210, 3236, 3263, 3288, 3314, 3339, 3363, 3388, 3412,
              3435, 3458, 3481, 3504, 3526, 3547, 3568, 3589, 3610, 3630,
              3650, 3669, 3688, 3706, 3724, 3742, 3759, 3776, 3792, 3808,
              3824, 3839, 3854, 3868, 3882, 3896, 3909, 3921, 3933, 3945,
              3956, 3967, 3978, 3988, 3997, 4006, 4015, 4023, 4031, 4039,
              4046, 4052, 4058, 4064, 4069, 4074, 4078, 4082, 4085, 4088,
              4090, 4092, 4094, 4095, 4096, 4096>>

Quarter == Len(SinTable) - 1
HalfTurn == 2 * Quarter

\* math.sin(math.pi * j / HalfTurn) for any integer j
SinPi(j) ==
    LET r == j % (2 * HalfTurn)
    IN  IF r <= Quarter THEN SinTable[r + 1]
        ELSE IF r <= HalfTurn THEN SinTable[HalfTurn - r + 1]
        ELSE IF r <= HalfTurn + Quarter THEN -SinTable[r - HalfTurn + 1]
        ELSE -SinTable[2 * HalfTurn - r + 1]

\* x ** 4
Pow4(x) == LET x2 == FMul(x, x) IN FMul(x2, x2)

\* Phase of half the angle, math.pi*t/(2*T)
PhaseHalfAngle(tt, period) ==
    LET num == HalfTurn * tt[1] * period[2]
        den == 2 * tt[2] * period[1]
    IN  IF den > 0 THEN num \div den ELSE (-num) \div (-den)

\* t/period in three-hundredths of a half turn (period # 0)
Phase(tt, period) ==
    LET num == HalfTurn * tt[1] * period[2]
        den == tt[2] * period[1]
    IN  IF den > 0 THEN num \div den ELSE (-num) \div (-den)

\* the sample phases of period at rate rate fall on the table's grid
OnGrid(period, rate) ==
    \/ period[1] = 0
    \/ rate = 0
    \/ (HalfTurn * period[2]) % Abs(rate * period[1]) = 0

\* h with the cosine in place of the sine
hCos(tt) == Pow4(SinPi(Phase(tt, T) + Quarter))

\* h with the third power in place of the fourth
hCubed(tt) == LET s == SinPi(Phase(tt, T)) IN FMul(FMul(s, s), s)

\* the square in place of the fourth power, sin(pi*t/T)**2
hSquared(tt) ==
    LET x == SinPi(Phase(tt, T)) IN FMul(x, x)

\* def h(t): return math.sin(math.pi*t/T)**4
h(tt) == Pow4(SinPi(Phase(tt, T)))

\* h(t) divides by the global T
hRaises(tt) == T[1] = 0

(***************************************************************************)
(* numpy's elementwise arithmetic with broadcasting.                       *)
(***************************************************************************)
Broadcastable(sa, sb) ==
    \A d \in 1..3 : sa[d] = sb[d] \/ sa[d] = 1 \/ sb[d] = 1

\* element (r, c, ch) of img broadcast to a larger shape
At(img, r, c, ch) ==
    LET row == img[IF Len(img) = 1 THEN 1 ELSE r]
        px  == row[IF Len(row) = 1 THEN 1 ELSE c]
    IN  px[IF Len(px) = 1 THEN 1 ELSE ch]

\* scalar * array
Scale(w, img) ==
    [r \in 1..Len(img) |->
        [c \in 1..Len(img[r]) |->
            [ch \in 1..Len(img[r][c]) |-> FMul(w, img[r][c][ch])]]]

\* array + array raises ValueError when the shapes do not broadcast
AddRaises(x, y) == ~Broadcastable(Shape(x), Shape(y))

\* array + array
Add(x, y) ==
    LET sx == Shape(x)
        sy == Shape(y)
    IN  [r \in 1..Max(sx[1], sy[1]) |->
            [c \in 1..Max(sx[2], sy[2]) |->
                [ch \in 1..Max(sx[3], sy[3]) |->
                    At(x, r, c, ch) + At(y, r, c, ch)]]]

(***************************************************************************)
(* Cell 4: the sample times and the blend.                                 *)
(***************************************************************************)
\* 1.0/fps as a rational with a positive denominator (fps # 0)
Step(rate) == IF rate > 0 THEN <<1, rate>> ELSE <<-1, -rate>>

\* ArangeLen rounding the quotient down instead of up
ArangeLenFloor(stop, step) ==
    LET num == stop[1] * step[2]
        den == stop[2] * step[1]
    IN  Max(0, IF den > 0 THEN num \div den ELSE (-num) \div (-den))

\* the length of numpy.arange(0, stop, step): ceil((stop - 0)/step), at least 0
ArangeLen(stop, step) ==
    LET num == stop[1] * step[2]
        den == stop[2] * step[1]
    IN  Max(0, IF den > 0 THEN CeilDiv(num, den) ELSE CeilDiv(-num, -den))

\* numpy.arange(0, stop, step): the values 0 + j*step
Arange(stop, step) ==
    [j \in 1..ArangeLen(stop, step) |-> <<(j - 1) * step[1], step[2]>>]

\* FrameRotate with the two weights exchanged
FrameRotateSwapped(tt, alt, base) ==
    Add(Scale(Unit - h(tt), alt), Scale(h(tt), base))

\* h(t)*im_rg_yb + (1-h(t))*im_yb
FrameRotate(tt, alt, base) ==
    Add(Scale(h(tt), alt), Scale(Unit - h(tt), base))

\* AppendData putting the new frame first
PrependData(fs, frame) == <<frame>> \o fs

\* f.append_data(frame)
AppendData(fs, frame) == Append(fs, frame)

(***************************************************************************)
(* The periods and frame rates the model runs the notebook with.           *)
(***************************************************************************)
Periods == {<<1, 1>>, <<1, 2>>, <<3, 2>>, <<3, 4>>}

Rates == {1, 2, 3, 4, 30}

(***************************************************************************)
(* The notebook, cell by cell.                                             *)
(***************************************************************************)
Init ==
    /\ pc = "cell1"
    /\ im = <<>> /\ m_yb = <<>> /\ im_yb = <<>>
    /\ m_rg = <<>> /\ m_rg_yb = <<>> /\ im_rg = <<>> /\ im_rg_yb = <<>>
    /\ T = <<>>
    /\ h_values = <<>>
    /\ fps = 0
    /\ f = "unopened"
    /\ arange = <<>>
    /\ i = 0
    /\ t = <<>>
    /\ frame_rotate = <<>>
    /\ frames = <<>>
    /\ times = <<>>
    /\ err = "None"

\* cell 1: read and normalise the image, project it on the yellow-blue axis
Cell1 ==
    /\ pc = "cell1"
    /\ \E raw \in RawImages :
          /\ im' = Normalize(raw)
          /\ m_yb' = M_YB
          /\ im_yb' = matmul(Normalize(raw), M_YB)
    /\ pc' = "cell2"
    /\ UNCHANGED <<m_rg, m_rg_yb, im_rg, im_rg_yb, T, h_values, fps, f, arange, i, t,
                   frame_rotate, frames, times, err>>

\* cell 2: the red-green image and its rotation to yellow-blue
Cell2 ==
    /\ pc = "cell2"
    /\ m_rg' = M_RG
    /\ m_rg_yb' = M_RG_YB
    /\ im_rg' = matmul(im, M_RG)
    /\ im_rg_yb' = matmul(im, M_RG_YB)
    /\ pc' = "cell3"
    /\ UNCHANGED <<im, m_yb, im_yb, T, h_values, fps, f, arange, i, t, frame_rotate,
                   frames, times, err>>

\* the plot's step 0.02
PlotStep == <<1, 50>>

\* numpy.arange(0,3*T,0.02)
PlotTimes == Arange(<<3 * T[1], T[2]>>, PlotStep)

\* cell 3, `T=1.0` (def h is the operator h above)
Cell3 ==
    /\ pc = "cell3"
    /\ \E period \in Periods : T' = period
    /\ pc' = "plot"
    /\ UNCHANGED <<im, m_yb, im_yb, m_rg, m_rg_yb, im_rg, im_rg_yb, h_values,
                   fps, f, arange, i, t, frame_rotate, frames, times, err>>

\* cell 3, `h_values=[h(t) for t in numpy.arange(0,3*T,0.02)]` (drawing the
\* plot is not modelled)
Cell3Plot ==
    /\ pc = "plot"
    /\ h_values' = [k \in 1..Len(PlotTimes) |-> h(PlotTimes[k])]
    /\ pc' = "cell4"
    /\ UNCHANGED <<im, m_yb, im_yb, m_rg, m_rg_yb, im_rg, im_rg_yb, T,
                   fps, f, arange, i, t, frame_rotate, frames, times, err>>

\* cell 4, `with imageio.get_writer("test_ybt.gif", fps=30) as f:`
GetWriter(rates) ==
    /\ pc = "cell4"
    /\ \E rate \in {r \in rates : OnGrid(T, r)} : fps' = rate
    /\ f' = "open"
    /\ pc' = "arange"
    /\ UNCHANGED <<im, m_yb, im_yb, m_rg, m_rg_yb, im_rg, im_rg_yb, T,
                   h_values, arange, i, t, frame_rotate, frames, times, err>>

\* cell 4, `numpy.arange(0,T,1.0/30.0)`: the division raises when fps is 0,
\* and the exception leaves the with block, which closes the writer
EvalArange ==
    /\ pc = "arange"
    /\ IF fps = 0
       THEN /\ err' = "ZeroDivisionError"
            /\ f' = "closed"
            /\ pc' = "done"
            /\ UNCHANGED arange
       ELSE /\ arange' = Arange(T, Step(fps))
            /\ pc' = "for"
            /\ UNCHANGED <<err, f>>
    /\ UNCHANGED <<im, m_yb, im_yb, m_rg, m_rg_yb, im_rg, im_rg_yb, T,
                   h_values, fps, i, t, frame_rotate, frames, times>>

\* ForBody with a shortcut that returns im_yb itself, without the sum, when
\* the weight is 0
ForBodyShortcut ==
    /\ pc = "for"
    /\ i < Len(arange)
    /\ t' = arange[i + 1]
    /\ i' = i + 1
    /\ IF hRaises(arange[i + 1])
       THEN /\ err' = "ZeroDivisionError"
            /\ f' = "closed"
            /\ pc' = "done"
            /\ UNCHANGED <<frame_rotate, frames, times>>
       ELSE IF h(arange[i + 1]) = 0
       THEN /\ frame_rotate' = im_yb
            /\ frames' = AppendData(frames, im_yb)
            /\ times' = Append(times, arange[i + 1])
            /\ UNCHANGED <<err, f, pc>>
       ELSE IF AddRaises(Scale(h(arange[i + 1]), im_rg_yb),
                         Scale(Unit - h(arange[i + 1]), im_yb))
       THEN /\ err' = "ValueError"
            /\ f' = "closed"
            /\ pc' = "done"
            /\ UNCHANGED <<frame_rotate, frames, times>>
       ELSE /\ frame_rotate' = FrameRotate(arange[i + 1], im_rg_yb, im_yb)
            /\ frames' = AppendData(frames, FrameRotate(arange[i + 1], im_rg_yb, im_yb))
            /\ times' = Append(times, arange[i + 1])
            /\ UNCHANGED <<err, f, pc>>
    /\ UNCHANGED <<im, m_yb, im_yb, m_rg, m_rg_yb, im_rg, im_rg_yb, T,
                   h_values, fps, arange>>

\* the loop body blending in place, the frame written back into im_yb
ForBodyInPlace ==
    /\ pc = "for"
    /\ i < Len(arange)
    /\ t' = arange[i + 1]
    /\ i' = i + 1
    /\ IF hRaises(arange[i + 1])
       THEN /\ err' = "ZeroDivisionError"
            /\ f' = "closed"
            /\ pc' = "done"
            /\ UNCHANGED <<frame_rotate, frames, times, im_yb>>
       ELSE IF AddRaises(Scale(h(arange[i + 1]), im_rg_yb),
                         Scale(Unit - h(arange[i + 1]), im_yb))
       THEN /\ err' = "ValueError"
            /\ f' = "closed"
            /\ pc' = "done"
            /\ UNCHANGED <<frame_rotate, frames, times, im_yb>>
       ELSE /\ im_yb' = FrameRotate(arange[i + 1], im_rg_yb, im_yb)
            /\ frame_rotate' = im_yb'
            /\ frames' = AppendData(frames, im_yb')
            /\ times' = Append(times, arange[i + 1])
            /\ UNCHANGED <<err, f, pc>>
    /\ UNCHANGED <<im, m_yb, m_rg, m_rg_yb, im_rg, im_rg_yb, T,
                   h_values, fps, arange>>

\* cell 4, one iteration of the for loop: bind t, compute the frame, append it
ForBody ==
    /\ pc = "for"
    /\ i < Len(arange)
    /\ t' = arange[i + 1]
    /\ i' = i + 1
    /\ IF hRaises(arange[i + 1])
       THEN /\ err' = "ZeroDivisionError"
            /\ f' = "closed"
            /\ pc' = "done"
            /\ UNCHANGED <<frame_rotate, frames, times>>
       ELSE IF AddRaises(Scale(h(arange[i + 1]), im_rg_yb),
                         Scale(Unit - h(arange[i + 1]), im_yb))
       THEN /\ err' = "ValueError"
            /\ f' = "closed"
            /\ pc' = "done"
            /\ UNCHANGED <<frame_rotate, frames, times>>
       ELSE /\ frame_rotate' = FrameRotate(arange[i + 1], im_rg_yb, im_yb)
            /\ frames' = AppendData(frames, FrameRotate(arange[i + 1], im_rg_yb, im_yb))
            /\ times' = Append(times, arange[i + 1])
            /\ UNCHANGED <<err, f, pc>>
    /\ UNCHANGED <<im, m_yb, im_yb, m_rg, m_rg_yb, im_rg, im_rg_yb, T,
                   h_values, fps, arange>>

\* cell 4, the loop is exhausted: the with block exits and closes the writer
ForEnd ==
    /\ pc = "for"
    /\ i = Len(arange)
    /\ f' = "closed"
    /\ pc' = "done"
    /\ UNCHANGED <<im, m_yb, im_yb, m_rg, m_rg_yb, im_rg, im_rg_yb, T,
                   h_values, fps, arange, i, t, frame_rotate, frames, times,
                   err>>

Next ==
    \/ Cell1
    \/ Cell2
    \/ Cell3
    \/ Cell3Plot
    \/ GetWriter(Rates)
    \/ EvalArange
    \/ ForBody
    \/ ForEnd

Spec == Init /\ [][Next]_vars

(***************************************************************************)
(* Cell 4 alone, as an operation on any two images, any period and any     *)
(* frame rate: the compositor run on a namespace in which im_yb, im_rg_yb  *)
(* and T hold arbitrary values (the float images need not come from bytes  *)
(* nor share a shape, and T and fps may be zero or negative).              *)
(***************************************************************************)
\* pure red, pure green and pure blue float pixels
Palette == << <<Unit, 0, 0>>, <<0, Unit, 0>>, <<0, 0, Unit>> >>

\* an image whose pixels walk the palette from entry p in strides of s
PatternImage(hh, ww, p, s) ==
    [r \in 1..hh |->
        [c \in 1..ww |-> Palette[((p + s * (r + c - 2)) % Len(Palette)) + 1]]]

BlendImages ==
    {PatternImage(hh, ww, p, s) :
        hh \in 1..MaxBlendH, ww \in 1..MaxW, p \in 0..2, s \in {0, 2}}

BlendPeriods == {<<1, 1>>, <<3, 4>>, <<0, 1>>, <<-1, 1>>}

BlendRates == {-2, 0, 1, 2}

InitBlend ==
    /\ pc = "cell4"
    /\ im = <<>> /\ m_yb = <<>> /\ m_rg = <<>> /\ m_rg_yb = <<>> /\ im_rg = <<>>
    /\ im_yb \in BlendImages
    /\ im_rg_yb \in BlendImages
    /\ T \in BlendPeriods
    /\ h_values = <<>>
    /\ fps = 0
    /\ f = "unopened"
    /\ arange = <<>>
    /\ i = 0
    /\ t = <<>>
    /\ frame_rotate = <<>>
    /\ frames = <<>>
    /\ times = <<>>
    /\ err = "None"

NextBlend ==
    \/ GetWriter(BlendRates)
    \/ EvalArange
    \/ ForBody
    \/ ForEnd

SpecBlend == InitBlend /\ [][NextBlend]_vars

(***************************************************************************)
(* Properties of the notebook run (Spec).                                  *)
(***************************************************************************)
\* T and fps are bound
Started == pc \in {"arange", "for", "done"}

\* pixel positions of an image
Rows(img) == 1..Len(img)
Cols(img) == 1..Len(img[1])

C2_ConvexBlend ==
    \A k \in 1..Len(frames) :
        LET w == h(times[k])
        IN  /\ Shape(frames[k]) = Shape(im_yb)
            /\ \A r \in Rows(im_yb), c \in Cols(im_yb), ch \in 1..3 :
                  frames[k][r][c][ch] =
                      FMul(w, im_rg_yb[r][c][ch]) + FMul(Unit - w, im_yb[r][c][ch])

\* a frame with a weight strictly between 0 and 1 that differs from both images
C2_Witness ==
    \E k \in 1..Len(frames) :
        /\ h(times[k]) > 0
        /\ h(times[k]) < Unit
        /\ frames[k] # im_yb
        /\ frames[k] # im_rg_yb

\* C3: every step leaves the appended frames as they are or appends one
\* frame at the end, computed at the next sample time, which is larger than
\* the sample time of every frame appended before; no appended frame is
\* moved, replaced or removed.
C3_AppendOnly ==
    [][/\ Len(frames') >= Len(frames)
       /\ Len(frames') <= Len(frames) + 1
       /\ SubSeq(frames', 1, Len(frames)) = frames
       /\ SubSeq(times', 1, Len(times)) = times
       /\ Len(times') = Len(frames')
       /\ Len(frames') = Len(frames) + 1 =>
             /\ frames'[Len(frames')] = frame_rotate'
             /\ times'[Len(times')] = t'
             /\ REq(t', <<Len(frames), fps>>)
             /\ \A k \in 1..Len(times) : RLess(times[k], t')]_vars

\* three frames appended, the first two different
C3_Witness ==
    /\ Len(frames) >= 3
    /\ frames[1] # frames[2]

\* cell 1 has run, cell 2 has run
Cell1Done == pc # "cell1"
Cell2Done == pc \notin {"cell1", "cell2"}

\* C5 as stated: im_rg has R' = R + 0.5B, G' = G + 0.5B, B' = 0 in every pixel.
C5_AsStated ==
    Cell2Done =>
        \A r \in Rows(im), c \in Cols(im) :
            LET p == im[r][c]
                q == im_rg[r][c]
            IN  /\ 2 * q[1] = 2 * p[1] + p[3]
                /\ 2 * q[2] = 2 * p[2] + p[3]
                /\ q[3] = 0

\* C5, amended: the pixel being a row vector right-multiplied by m_rg, im_rg
\* has R' = R, G' = G, B' = 0.5R + 0.5G in every pixel.
C5_RowVector ==
    Cell2Done =>
        /\ Shape(im_rg) = Shape(im)
        /\ \A r \in Rows(im), c \in Cols(im) :
              LET p == im[r][c]
                  q == im_rg[r][c]
              IN  /\ q[1] = p[1]
                  /\ q[2] = p[2]
                  /\ 2 * q[3] = p[1] + p[2]

\* im_rg of an image with a pixel whose blue is not the mean of red and green
C5_Witness ==
    /\ Cell2Done
    /\ \E r \in Rows(im), c \in Cols(im) :
          /\ im[r][c][3] > 0
          /\ im_rg[r][c][3] # im[r][c][3]
          /\ im_rg[r][c][3] > 0

\* C6 as stated: im_rg_yb has R' = 0.75R + 0.75G, G' = 0.25R + 0.25G + B,
\* B' = 0 in every pixel.
C6_AsStated ==
    Cell2Done =>
        \A r \in Rows(im), c \in Cols(im) :
            LET p == im[r][c]
                q == im_rg_yb[r][c]
            IN  /\ 4 * q[1] = 3 * p[1] + 3 * p[2]
                /\ 4 * q[2] = p[1] + p[2] + 4 * p[3]
                /\ q[3] = 0

\* C6, amended: the pixel being a row vector right-multiplied by m_rg_yb,
\* im_rg_yb has R' = 0.75R + 0.25G, G' = 0.75R + 0.25G, B' = G in every pixel.
C6_RowVector ==
    Cell2Done =>
        /\ Shape(im_rg_yb) = Shape(im)
        /\ \A r \in Rows(im), c \in Cols(im) :
              LET p == im[r][c]
                  q == im_rg_yb[r][c]
              IN  /\ 4 * q[1] = 3 * p[1] + p[2]
                  /\ 4 * q[2] = 3 * p[1] + p[2]
                  /\ q[3] = p[2]

\* im_rg_yb of an image with a pixel that has green and a different red
C6_Witness ==
    /\ Cell2Done
    /\ \E r \in Rows(im), c \in Cols(im) :
          /\ im[r][c][2] > 0
          /\ im[r][c][1] # im[r][c][2]
          /\ im_rg_yb[r][c][3] = im[r][c][2]

\* C7: im_yb has the shape of im and R' = 0.5R + 0.5G, G' = 0.5R + 0.5G,
\* B' = B in every pixel, and m_yb maps pure red [1,0,0] to [0.5,0.5,0].
C7_YellowBlue ==
    Cell1Done =>
        /\ Shape(im_yb) = Shape(im)
        /\ \A r \in Rows(im), c \in Cols(im) :
              LET p == im[r][c]
                  q == im_yb[r][c]
              IN  /\ 2 * q[1] = p[1] + p[2]
                  /\ 2 * q[2] = p[1] + p[2]
                  /\ q[3] = p[3]
        /\ VecMat(<<Unit, 0, 0>>, m_yb) = <<Unit \div 2, Unit \div 2, 0>>

\* im_yb of a two-pixel image with a pixel whose red and green differ and
\* whose blue is positive
C7_Witness ==
    /\ Cell1Done
    /\ Len(im) = 2
    /\ \E r \in Rows(im), c \in Cols(im) :
          /\ im[r][c][1] # im[r][c][2]
          /\ im[r][c][3] > 0
          /\ im_yb[r][c][1] = im_yb[r][c][2]

(***************************************************************************)
(* Properties of the compositor on arbitrary inputs (SpecBlend).           *)
(***************************************************************************)
\* the images of the end-to-end scenario: [[1,0,0],[0,0,1]] and [[0,1,0],[1,0,0]]
ExampleA == << << <<Unit, 0, 0>> >>, << <<0, 0, Unit>> >> >>
ExampleB == << << <<0, Unit, 0>> >>, << <<Unit, 0, 0>> >> >>

\* C4: when im_yb (A) and im_rg_yb (B) have the same shape, the frame
\* computed at t = 0 is A and a frame computed at t = T/2 is B; for the
\* example images with T = 1.0 and fps = 2 the finished sequence is [A, B].
C4_Endpoints ==
    /\ \A k \in 1..Len(frames) :
          Shape(im_yb) = Shape(im_rg_yb) =>
              /\ times[k][1] = 0 => frames[k] = im_yb
              /\ REq(<<2 * times[k][1], times[k][2]>>, T) => frames[k] = im_rg_yb
    /\ (/\ pc = "done"
        /\ im_yb = ExampleA
        /\ im_rg_yb = ExampleB
        /\ T = <<1, 1>>
        /\ fps = 2) => frames = <<ExampleA, ExampleB>>

\* the end-to-end scenario has run to its end
C4_Witness ==
    /\ pc = "done"
    /\ im_yb = ExampleA
    /\ im_rg_yb = ExampleB
    /\ T = <<1, 1>>
    /\ fps = 2
    /\ Len(frames) = 2
    /\ REq(<<2 * times[2][1], times[2][2]>>, T)

\* C8 as stated: with fps <= 0 or T <= 0 the compositor appends no frame and
\* ends with an error.
C8_RejectsNonPositive ==
    (Started /\ (fps <= 0 \/ T[1] <= 0)) =>
        /\ frames = <<>>
        /\ pc = "done" => err # "None"

\* C9 as stated: with im_yb and im_rg_yb of different shapes the compositor
\* never appends a frame, and (for a positive period and frame rate, which ask
\* for at least one frame) it ends with an error.
C9_RejectsShapeMismatch ==
    Shape(im_yb) # Shape(im_rg_yb) =>
        /\ frames = <<>>
        /\ (pc = "done" /\ T[1] > 0 /\ fps > 0) => err # "None"

PlotDone == pc \in {"cell4", "arange", "for", "done"}

\* the time j/HalfTurn * T, whose phase is j three-hundredths of a half turn
GridTime(j) == <<j * T[1], HalfTurn * T[2]>>

\* C11: every value h takes lies in [0, 1]: the samples of h over [0, 3T),
\* h at negative times, and the weight w of every appended frame, so that
\* w and 1 - w are both in [0, 1].
C11_WeightRange ==
    /\ \A k \in 1..Len(h_values) : h_values[k] >= 0 /\ h_values[k] <= Unit
    /\ pc = "cell4" =>
          \A j \in (-HalfTurn)..0 : h(GridTime(j)) >= 0 /\ h(GridTime(j)) <= Unit
    /\ \A k \in 1..Len(frames) :
          LET w == h(times[k])
          IN  /\ w >= 0 /\ w <= Unit
              /\ Unit - w >= 0 /\ Unit - w <= Unit

\* a finished run of two or more frames whose plot samples reach 1 in the
\* third period
C11_Witness ==
    /\ pc = "done"
    /\ Len(frames) >= 2
    /\ \E k \in 1..Len(h_values) :
          /\ 3 * k > 2 * Len(h_values)
          /\ h_values[k] = Unit

\* tt + T
PlusT(tt) == <<tt[1] * T[2] + T[1] * tt[2], tt[2] * T[2]>>

\* the number of plot samples in one period, T/0.02, when that is whole
SamplesPerPeriodWhole == (PlotStep[2] * T[1]) % (PlotStep[1] * T[2]) = 0
SamplesPerPeriod == (PlotStep[2] * T[1]) \div (PlotStep[1] * T[2])

Close(x, y) == Abs(x - y) <= Unit \div 256

\* h(t) = 1 - h(t + t') at every grid time t of [0,T), for the shift t' = s/600 T
Mirrors(s) == \A j \in 0..(HalfTurn - 1) : Close(h(GridTime(j)) + h(GridTime(j + s)), Unit)

\* C13: no shift t' makes h(t) = 1 - h(t + t') for all t in [0,T): every grid
\* shift from -T to T leaves a time where the two differ, and so does T/2.
C13_Asymmetric ==
    pc = "cell4" =>
        /\ \A s \in (-HalfTurn)..HalfTurn : ~Mirrors(s)
        /\ ~Mirrors(Quarter)

\* T is chosen, and at t = T/4 both h(t) and h(t + T/2) are a quarter, so the
\* two weights sum to a half, not to one
C13_Witness ==
    /\ pc = "cell4"
    /\ Close(4 * h(GridTime(Quarter \div 2)), Unit)
    /\ Close(4 * h(GridTime(Quarter \div 2 + Quarter)), Unit)
    /\ ~Close(h(GridTime(Quarter \div 2)) + h(GridTime(Quarter \div 2 + Quarter)), Unit)

\* C14: the Yellow-Blue projection is idempotent: applied to im_yb it gives
\* im_yb again, in every pixel R'' = R', G'' = G' and B'' = B' = B.
C14_Idempotent ==
    Cell1Done =>
        /\ matmul(im_yb, m_yb) = im_yb
        /\ \A r \in Rows(im), c \in Cols(im) :
              LET p  == im[r][c]
                  q  == im_yb[r][c]
                  qq == VecMat(q, m_yb)
              IN  /\ qq[1] = q[1]
                  /\ qq[2] = q[2]
                  /\ qq[3] = q[3]
                  /\ q[3] = p[3]

\* the projection changed the image (a pixel's red and green differ) and
\* applying it again changes nothing
C14_Witness ==
    /\ Cell1Done
    /\ im_yb # im
    /\ \E r \in Rows(im), c \in Cols(im) :
          /\ im[r][c][1] # im[r][c][2]
          /\ im_yb[r][c][1] > 0
          /\ VecMat(im_yb[r][c], m_yb) = im_yb[r][c]

\* C15: no image or matrix changes once it is assigned: the transforms of
\* cells 1 and 2 leave their input im as it was, every loop iteration leaves
\* im_yb, im_rg_yb and the three matrices as they were, and each appended
\* frame is the blend of the im_yb and im_rg_yb that frame 0 was blended from.
C15_NoMutation ==
    [][/\ pc = "cell1" => /\ im_yb' = matmul(im', m_yb')
                          /\ m_yb' = M_YB
       /\ Cell1Done => /\ im' = im
                       /\ m_yb' = m_yb
                       /\ im_yb' = im_yb
       /\ pc = "cell2" => /\ im_rg' = matmul(im, m_rg')
                          /\ im_rg_yb' = matmul(im, m_rg_yb')
       /\ Cell2Done => /\ m_rg' = m_rg
                       /\ m_rg_yb' = m_rg_yb
                       /\ im_rg' = im_rg
                       /\ im_rg_yb' = im_rg_yb
       /\ Len(frames') = Len(frames) + 1 =>
             /\ frames'[Len(frames')] = FrameRotate(t', im_rg_yb, im_yb)
             /\ frames'[1] = FrameRotate(times'[1], im_rg_yb', im_yb')]_vars

\* a finished run whose last frame is not im_yb, with every image still the
\* product it was assigned
C15_Witness ==
    /\ pc = "done"
    /\ Len(frames) >= 2
    /\ frames[1] = im_yb
    /\ frames[Len(frames)] # im_yb
    /\ im_yb = matmul(im, m_yb)
    /\ im_rg = matmul(im, m_rg)
    /\ im_rg_yb = matmul(im, m_rg_yb)
    /\ m_yb = M_YB /\ m_rg = M_RG /\ m_rg_yb = M_RG_YB

\* every channel of every pixel of img is in [0,1]
InUnitRange(img) ==
    \A r \in Rows(img), c \in Cols(img) :
        \A ch \in 1..3 : img[r][c][ch] >= 0 /\ img[r][c][ch] <= Unit

\* C16: the input channels are in [0,1], and so is every channel of im_yb,
\* im_rg and im_rg_yb (row vector times matrix) and of every appended frame.
C16_ChannelRange ==
    /\ Cell1Done => InUnitRange(im) /\ InUnitRange(im_yb)
    /\ Cell2Done => InUnitRange(im_rg) /\ InUnitRange(im_rg_yb)
    /\ (Started /\ T[1] > 0 /\ fps > 0) =>
          \A k \in 1..Len(frames) : InUnitRange(frames[k])

\* a finished run on an image with a pixel of the largest red and green:
\* im_rg_yb keeps that largest value in a channel, and a frame whose weight
\* is positive has a positive channel
C16_Witness ==
    /\ pc = "done"
    /\ Len(frames) >= 2
    /\ \E r \in Rows(im), c \in Cols(im) :
          /\ im[r][c][1] = Normalize(<<<<<<255, 255, 64>>>>>>)[1][1][1]
          /\ im_rg_yb[r][c][1] = im[r][c][1]
          /\ im_rg[r][c][3] = im[r][c][1]
          /\ im[r][c][3] > 0
          /\ \E k \in 1..Len(frames) :
                /\ h(times[k]) > 0
                /\ frames[k][r][c][1] > 0
                /\ frames[k][r][c][3] > im_yb[r][c][3]

====
